---- MODULE Spec2Model ----
(***************************************************************************)
(* RISC-V Platform-Level Interrupt Controller: the driver's value types    *)
(* (Nr, Priority), the claim decoding of both driver variants, and the     *)
(* trap entry generated by plic-rt (gen_once_trap_handler) running against *)
(* a PLIC with several sources and contexts; the #[interrupt] attribute    *)
(* macro, the static mut cells of its trampolines, and the enable and      *)
(* priority registers as the driver reads and writes them.                 *)
(***************************************************************************)
EXTENDS Integers, Sequences, FiniteSets, TLC

\* ------------------------------------------------------------------ bounds

\* The most trap entries in progress at one time, over all contexts.
MaxFrames == 2
\* Priority levels 1..MaxPrio are configured for the sources.
MaxPrio == 3
\* Raw register values 0..MaxSmallRaw are tried next to the boundary values.
MaxSmallRaw == 17
\* Priority widths 1..MaxWidth are tried next to the full width 32.
MaxWidth == 8
\* Handler bodies of up to MaxStmts statements are expanded.
MaxStmts == 3
\* Up to MaxExpansions uses of #[interrupt] in one build.
MaxExpansions == 3
\* Each handler is invoked up to MaxInvocations times.
MaxInvocations == 3
\* A handler stores a value 0..MaxCell in its cell.
MaxCell == 2

\* --------------------------------------------------------------- integers

RECURSIVE Pow2(_)
Pow2(n) == IF n = 0 THEN 1 ELSE 2 * Pow2(n - 1)

\* A u32 (and a usize of the 32-bit target) is kept as its two 16-bit halves,
\* so that every value up to u32::MAX is exact.
U32(n) == [hi |-> n \div Pow2(16), lo |-> n % Pow2(16)]
ToNat(x) == x.hi * Pow2(16) + x.lo

U16_MAX == Pow2(16) - 1
U32_MAX == [hi |-> U16_MAX, lo |-> U16_MAX]

Lt32(x, y) == x.hi < y.hi \/ (x.hi = y.hi /\ x.lo < y.lo)

\* The value of x where it is at most u16::MAX, and u16::MAX + 1 above.
ToNatOrBig(x) == IF x.hi = 0 THEN x.lo ELSE Pow2(16)

\* x << n on u32, n < 32: the bits shifted out are lost.
RECURSIVE Shl32(_, _)
Shl32(x, n) ==
    IF n = 0 THEN x
    ELSE Shl32([hi |-> (2 * x.hi + (2 * x.lo) \div Pow2(16)) % Pow2(16),
                lo |-> (2 * x.lo) % Pow2(16)], n - 1)

\* x - y on u32, wrapping.
Sub32(x, y) ==
    LET lo == x.lo - y.lo
        hi == x.hi - y.hi - (IF lo < 0 THEN 1 ELSE 0)
    IN  [hi |-> (hi + Pow2(16)) % Pow2(16), lo |-> (lo + Pow2(16)) % Pow2(16)]

Ok(v) == [ok |-> TRUE, val |-> v]
Err == [ok |-> FALSE, val |-> 0]

\* ------------------------------------------------- Nr (plic/src/lib.rs)

\* NonZeroU16::try_from(u16): fails for 0 only.
NonZeroU16TryFrom(src) == IF src # 0 THEN Ok(src) ELSE Err

\* u16::try_from(u32 / usize): fails above u16::MAX.
U16TryFrom(src) == IF src.hi = 0 THEN Ok(src.lo) ELSE Err

\* impl TryFrom<u16> for Nr
NrTryFromU16(src) == NonZeroU16TryFrom(src)

\* impl TryFrom<u32> for Nr
NrTryFromU32(src) ==
    LET n == U16TryFrom(src)
    IN  IF n.ok THEN NonZeroU16TryFrom(n.val) ELSE Err

\* impl TryFrom<usize> for Nr
NrTryFromUsize(src) ==
    LET n == U16TryFrom(src)
    IN  IF n.ok THEN NonZeroU16TryFrom(n.val) ELSE Err

\* impl From<Nr> for u16: the value of the NonZeroU16
NrIntoU16(nr) == nr

\* impl From<Nr> for u32, through u16, with a variant that keeps 8 bits.
NrIntoU32_Low8(nr) == U32(NrIntoU16(nr) % Pow2(8))
NrIntoU32(nr) == U32(NrIntoU16(nr))

\* impl From<Nr> for usize, through u16
NrIntoUsize(nr) == U32(NrIntoU16(nr))

\* The three conversions of the Nr that try_from has returned, if any.
NrRoundTrip(r) ==
    IF r.ok THEN Ok([u16 |-> NrIntoU16(r.val), u32 |-> NrIntoU32(r.val),
                     usize |-> NrIntoUsize(r.val)])
    ELSE Err

\* ------------------------------------------- Priority<B> (plic/src/lib.rs)

\* Priority::<B>::highest()
PriorityHighest(B) ==
    IF B = 32 THEN U32_MAX ELSE Sub32(Shl32(U32(2), B), U32(1))

\* Priority::<B>::from_bits(prio): Err is the panic "invalid priority".
PriorityFromBits(B, prio) ==
    IF B = 32 THEN Ok(prio)
    ELSE IF Lt32(prio, Shl32(U32(2), B)) THEN Ok(prio) ELSE Err

\* Priority::from_bits of the fixed-width driver (src/lib.rs): P0..P7.
FixedPriorityFromBits(prio) ==
    IF prio.hi = 0 /\ prio.lo \in 0..7 THEN Ok(prio.lo) ELSE Err

\* --------------------------------------------------------- claim decoding

\* Plic::<P, B>::claim: the value read, decoded to Option<Nr>.
PlicClaim(bits) == NrTryFromU32(bits)

\* Plic::<B>::claim of the fixed-width driver: bits.try_into().ok(): Option<u16>.
FixedPlicClaim(bits) == U16TryFrom(bits)

\* ------------------------------------------------------------- platform

\* pac::Interrupt: the sources of the platform (nonzero identifiers).
Sources == {1, 2, 5}

\* The contexts (hart_id as read from mhartid) the platform has.
Contexts == {0, 1}

\* pac::PLIC = plic::Plic<0x4000_0000, 3>: the priority width B.
PRIORITY_BITS == 3

\* pac::__INTERRUPTS: the handler tables a platform crate may provide, slot i
\* for source i (slot 0 reserved).  "handler" is Vector { handler: f },
\* "reserved" is Vector { reserved: 0 }.  FullTable binds every source;
\* SparseTable binds source 1 only: slot 2 is reserved and source 5 lies
\* beyond the table.
FullTable == <<"reserved", "handler", "handler", "reserved", "reserved", "handler">>
SparseTable == <<"reserved", "handler", "reserved">>
Tables == {FullTable, SparseTable}

\* Which sources are unmasked for which context: all of them for context 0,
\* and source 5 for context 1 as well.
EnableInit == [c \in Contexts |-> IF c = 0 THEN Sources ELSE {5}]

\* mie.msoft / mie.mtimer of the harts before their first trap.
MieInits ==
    {[c \in Contexts |-> [msoft |-> b, mtimer |-> b]] : b \in BOOLEAN}

\* ---------------------------------------------------------------- state

VARIABLES
    priority,   \* RegisterBlock.priority[s]: raw bits, per source
    pending,    \* RegisterBlock.pending: the set of sources whose bit is set
    inService,  \* sources claimed and not yet completed (gateway closed)
    enable,     \* RegisterBlock.enables[c]: the sources unmasked for context c
    threshold,  \* RegisterBlock.contexts[c].threshold: raw bits
    vectors,    \* pac::__INTERRUPTS
    mie,        \* the mie CSR bits of each hart
    stack,      \* per context: the trap entries in progress, innermost last
    status,     \* per context: "run", or how it stopped
    eval,       \* the last evaluation of a value-type function
    macro,      \* the #[interrupt] expansions of one build: HAS_TRAP_HANDLER and output
    cells,      \* the static mut cells the trampolines own
    cellLog,    \* per handler: what its last invocation saw and wrote
    rmw,        \* a mask / unmask between its read and its write
    lastOp      \* the last mask / unmask that has written

plicVars == <<priority, pending, inService, enable, threshold>>
rtVars == <<vectors, mie, stack, status>>
auxVars == <<macro, cells, cellLog, rmw, lastOp>>
vars == <<priority, pending, inService, enable, threshold, vectors, mie, stack, status, eval,
          macro, cells, cellLog, rmw, lastOp>>

\* ------------------------------------------------------- the controller

\* The sources that signal context c: pending, unmasked for c, and of a
\* priority above c's threshold.
Eligible(c) ==
    {s \in Sources : s \in pending /\ s \in enable[c] /\ priority[s] > threshold[c]}

\* The external interrupt line of context c.
ExternalInterruptPending(c) == Eligible(c) # {}

\* What a read of contexts[c].claim returns: the eligible source of the
\* highest priority (the lowest identifier among equals), or 0.
ClaimRegisterRead(c) ==
    IF Eligible(c) = {} THEN 0
    ELSE CHOOSE s \in Eligible(c) :
            \A t \in Eligible(c) :
                priority[s] > priority[t] \/ (priority[s] = priority[t] /\ s <= t)

\* ------------------------------------------------------- the trap entry

\* The trap entry with the handler called before the threshold is raised.
TrapEntrySteps_CallBeforeRaise ==
    <<"get_threshold", "claim", "get_priority", "call", "handler", "raise",
      "restore", "complete", "ret">>

\* The trap entry with its epilogue (restore, complete) placed before the
\* handler call instead of after it.
TrapEntrySteps_EpilogueBeforeCall ==
    <<"get_threshold", "claim", "get_priority", "raise", "restore", "complete",
      "call", "handler", "ret">>

\* __plic_rt_machine_external_handler, statement by statement.  "handler" is
\* the time the called handler runs.
TrapEntrySteps ==
    <<"get_threshold", "claim", "get_priority", "raise", "call", "handler",
      "restore", "complete", "ret">>

\* A trap entry in progress: its position, its locals (threshold, irq, prio;
\* -1 before they are bound), the threshold register at its entry, and the
\* driver calls and the handler call it has made so far.
NewFrame(entry) ==
    [pc |-> 1, threshold |-> -1, irq |-> -1, prio |-> -1, entry |-> entry, trace |-> <<>>]

Top(c) == stack[c][Len(stack[c])]
CurStep(c) == TrapEntrySteps[Top(c).pc]
AtStep(c, name) == status[c] = "run" /\ stack[c] # <<>> /\ CurStep(c) = name
SetTop(c, f) == [stack EXCEPT ![c] = [@ EXCEPT ![Len(@)] = f]]
Advance(f) == [f EXCEPT !.pc = @ + 1]
Log(f, op, arg) == [f EXCEPT !.trace = Append(@, <<op, arg>>)]

RECURSIVE SumLen(_)
SumLen(cs) ==
    IF cs = {} THEN 0
    ELSE LET c == CHOOSE x \in cs : TRUE IN Len(stack[c]) + SumLen(cs \ {c})

\* The trap entries in progress, over all contexts.
FramesInProgress == SumLen(Contexts)

\* The position of the handler call in the trap entry.
CallIndex == CHOOSE i \in 1..Len(TrapEntrySteps) : TrapEntrySteps[i] = "call"

\* The steps during which the interrupted code may have machine interrupts
\* enabled again: mainline code, a running handler, and what follows it.
Preemptible(c) ==
    IF stack[c] = <<>> THEN TRUE
    ELSE CurStep(c) \in {"handler", "restore", "complete", "ret"}

\* How a context stops for good.
Stopped == {"panic_unwrap", "panic_priority", "panic_index", "fault", "wild"}

\* What a call through the handler field of Vector { reserved: 0 } can do: the
\* read of the inactive union field gives a null function pointer, and the
\* call of it is undefined: the hart faults, or runs whatever is at address 0.
NullCallOutcomes == {"fault", "wild"}

\* let hart_id = mhartid::read(): the context whose registers the trap
\* entry running on hart c uses; the variant uses those of hart 0 everywhere.
HartId_Zero(c) == 0
HartId(c) == c

\* A source asserts its interrupt line: the gateway latches it unless a
\* request of that source is pending already or in service.
Assert_(s) ==
    /\ s \notin pending
    /\ s \notin inService
    /\ pending' = pending \cup {s}
    /\ UNCHANGED <<priority, inService, enable, threshold, vectors, mie, stack, status, eval, auxVars>>

\* The hart takes the machine external interrupt: MachineExternal is entered.
TrapEnter(c) ==
    /\ status[c] = "run"
    /\ ExternalInterruptPending(c)
    /\ Preemptible(c)
    /\ FramesInProgress < MaxFrames
    /\ stack' = [stack EXCEPT ![c] = Append(@, NewFrame(threshold[c]))]
    /\ UNCHANGED <<priority, pending, inService, enable, threshold, vectors, mie, status, eval, auxVars>>

\* let threshold = pac::PLIC::get_threshold(hart_id);
GetThreshold(c) ==
    /\ AtStep(c, "get_threshold")
    /\ LET r == PriorityFromBits(PRIORITY_BITS, U32(threshold[HartId(c)]))
       IN  IF r.ok
           THEN /\ stack' = SetTop(c, Advance([Top(c) EXCEPT !.threshold = ToNat(r.val)]))
                /\ UNCHANGED status
           ELSE /\ status' = [status EXCEPT ![c] = "panic_priority"]
                /\ UNCHANGED stack
    /\ UNCHANGED <<priority, pending, inService, enable, threshold, vectors, mie, eval, auxVars>>

\* let irq = pac::PLIC::claim(hart_id).unwrap();
\* The read takes the source returned out of pending and into service.
Claim(c) ==
    /\ AtStep(c, "claim")
    /\ LET bits == ClaimRegisterRead(HartId(c))
           opt == PlicClaim(U32(bits))
       IN  /\ pending' = pending \ {bits}
           /\ inService' = IF bits = 0 THEN inService ELSE inService \cup {bits}
           /\ IF opt.ok
              THEN /\ stack' = SetTop(c, Advance(Log([Top(c) EXCEPT !.irq = opt.val],
                                                     "claim", opt.val)))
                   /\ UNCHANGED status
              ELSE /\ stack' = SetTop(c, [Top(c) EXCEPT !.irq = 0])
                   /\ status' = [status EXCEPT ![c] = "panic_unwrap"]
    /\ UNCHANGED <<priority, enable, threshold, vectors, mie, eval, auxVars>>

\* let prio = pac::PLIC::get_priority(irq);
GetPriority(c) ==
    /\ AtStep(c, "get_priority")
    /\ LET irq == Top(c).irq
       IN  IF irq >= 1024
           THEN /\ status' = [status EXCEPT ![c] = "panic_index"]
                /\ UNCHANGED stack
           ELSE LET r == PriorityFromBits(PRIORITY_BITS, U32(priority[irq]))
                IN  IF r.ok
                    THEN /\ stack' = SetTop(c, Advance([Top(c) EXCEPT !.prio = ToNat(r.val)]))
                         /\ UNCHANGED status
                    ELSE /\ status' = [status EXCEPT ![c] = "panic_priority"]
                         /\ UNCHANGED stack
    /\ UNCHANGED <<priority, pending, inService, enable, threshold, vectors, mie, eval, auxVars>>

\* set_threshold(hart_id, threshold) in place of set_threshold(hart_id, prio).
RaisedThreshold_Saved(f) == f.threshold

\* set_threshold(hart_id, Priority::lowest()) in its place.
RaisedThreshold_Lowest(f) == 1

\* The threshold the trap entry sets before it calls the handler.
RaisedThreshold(f) == f.prio

\* unsafe { set_threshold(hart_id, prio); mie::clear_msoft(); mie::clear_mtimer(); }
RaiseThreshold(c) ==
    /\ AtStep(c, "raise")
    /\ threshold' = [threshold EXCEPT ![HartId(c)] = RaisedThreshold(Top(c))]
    /\ mie' = [mie EXCEPT ![c] = [msoft |-> FALSE, mtimer |-> FALSE]]
    /\ stack' = SetTop(c, Advance(Log(Top(c), "set_threshold", RaisedThreshold(Top(c)))))
    /\ UNCHANGED <<priority, pending, inService, enable, vectors, status, eval, auxVars>>

\* unsafe { (pac::__INTERRUPTS[irq_index].handler)() }: the call.
CallHandler(c) ==
    /\ AtStep(c, "call")
    /\ LET irq_index == Top(c).irq
       IN  \/ /\ irq_index >= Len(vectors)
              /\ status' = [status EXCEPT ![c] = "panic_index"]
              /\ UNCHANGED stack
           \/ /\ irq_index < Len(vectors)
              /\ vectors[irq_index + 1] = "reserved"
              /\ \E outcome \in NullCallOutcomes :
                    status' = [status EXCEPT ![c] = outcome]
              /\ UNCHANGED stack
           \/ /\ irq_index < Len(vectors)
              /\ vectors[irq_index + 1] = "handler"
              /\ stack' = SetTop(c, Advance(Log(Top(c), "handler", irq_index)))
              /\ UNCHANGED status
    /\ UNCHANGED <<priority, pending, inService, enable, threshold, vectors, mie, eval, auxVars>>

\* The handler called returns to the trap entry.
HandlerReturn(c) ==
    /\ AtStep(c, "handler")
    /\ stack' = SetTop(c, Advance(Top(c)))
    /\ UNCHANGED <<priority, pending, inService, enable, threshold, vectors, mie, status, eval, auxVars>>

\* set_threshold(hart_id, prio) in place of set_threshold(hart_id, threshold).
RestoredThreshold_Prio(f) == f.prio

\* The threshold the trap entry sets after the handler has returned.
RestoredThreshold(f) == f.threshold

\* unsafe { mie::set_mtimer(); mie::set_msoft(); set_threshold(hart_id, threshold); }
RestoreThreshold(c) ==
    /\ AtStep(c, "restore")
    /\ mie' = [mie EXCEPT ![c] = [msoft |-> TRUE, mtimer |-> TRUE]]
    /\ threshold' = [threshold EXCEPT ![HartId(c)] = RestoredThreshold(Top(c))]
    /\ stack' = SetTop(c, Advance(Log(Top(c), "set_threshold", RestoredThreshold(Top(c)))))
    /\ UNCHANGED <<priority, pending, inService, enable, vectors, status, eval, auxVars>>

\* pac::PLIC::complete(hart_id, irq): the write opens the source's gateway.
Complete(c) ==
    /\ AtStep(c, "complete")
    /\ inService' = inService \ {Top(c).irq}
    /\ stack' = SetTop(c, Advance(Log(Top(c), "complete", Top(c).irq)))
    /\ UNCHANGED <<priority, pending, enable, threshold, vectors, mie, status, eval, auxVars>>

\* The trap entry returns to the interrupted code.
TrapReturn(c) ==
    /\ AtStep(c, "ret")
    /\ stack' = [stack EXCEPT ![c] = SubSeq(@, 1, Len(@) - 1)]
    /\ UNCHANGED <<priority, pending, inService, enable, threshold, vectors, mie, status, eval, auxVars>>

\* ------------------------------------ #[interrupt] (plic-rt/src/lib.rs)

\* The handlers a crate defines: the variants of pac::Interrupt.
Handlers == {"GPIO", "SERIAL"}

\* The identifiers a handler body gives to its statics.
StaticNames == {"A", "B"}

\* The statements of a handler body: Stmt::Item(Item::Static) with and
\* without `mut`, and any other statement.
StaticMut(name) == [kind |-> "static_mut", name |-> name]
StaticImm(name) == [kind |-> "static", name |-> name]
OtherStmt == [kind |-> "other", name |-> ""]
Stmts == {StaticMut(n) : n \in StaticNames} \cup {StaticImm("A"), OtherStmt}

RECURSIVE SeqsUpTo(_, _)
SeqsUpTo(S, n) ==
    IF n = 0 THEN {<<>>}
    ELSE LET shorter == SeqsUpTo(S, n - 1)
         IN  shorter \cup {Append(q, x) : q \in {r \in shorter : Len(r) = n - 1}, x \in S}

Bodies == SeqsUpTo(Stmts, MaxStmts)

\* seen.contains(&var.ident), with the variant that never finds a name.
AlreadySeen_Never(seen, name) == FALSE
AlreadySeen(seen, name) == name \in seen

\* The while loop of extract_static_muts from statement i on.
RECURSIVE ExtractLoop(_, _, _, _, _)
ExtractLoop(istmts, i, seen, statics, stmts) ==
    IF i > Len(istmts) THEN [ok |-> TRUE, statics |-> statics, stmts |-> stmts]
    ELSE LET stmt == istmts[i]
         IN  IF stmt.kind = "static_mut"
             THEN IF AlreadySeen(seen, stmt.name)
                  THEN [ok |-> FALSE, statics |-> <<>>, stmts |-> <<>>]
                  ELSE ExtractLoop(istmts, i + 1, seen \cup {stmt.name},
                                   Append(statics, stmt.name), stmts)
             ELSE IF stmt.kind = "static"
             THEN ExtractLoop(istmts, i + 1, seen, statics, Append(stmts, stmt))
             ELSE [ok |-> TRUE, statics |-> statics,
                   stmts |-> Append(stmts, stmt) \o SubSeq(istmts, i + 1, Len(istmts))]

\* extract_static_muts: the names of the `static mut` items at the head of
\* the body and the statements that stay in it, or the error "defined
\* multiple times".
ExtractStaticMuts(istmts) == ExtractLoop(istmts, 1, {}, <<>>, <<>>)

\* HAS_TRAP_HANDLER.call_once(f): whether f runs, given whether the Once has
\* completed; with the variant that runs f every time.
CallOnce_Always(done) == TRUE
CallOnce(done) == ~done

\* What one expansion hands back to the compiler: a compile error, or the
\* trampoline of the handler with one cell per extracted static, preceded by
\* the trap entry where once_trap_handler is not empty.
CompileError(msg) ==
    [ok |-> FALSE, msg |-> msg, trap |-> FALSE, tramp |-> "", cells |-> <<>>, stmts |-> <<>>]
Expansion(trap, ident, statics, stmts) ==
    [ok |-> TRUE, msg |-> "", trap |-> trap, tramp |-> ident, cells |-> statics, stmts |-> stmts]

\* interrupt(args, input) with HAS_TRAP_HANDLER in state `done`.
InterruptOutput(done, in) ==
    IF ~in.isFn THEN CompileError("must be applied to a function")
    ELSE IF ~in.argsEmpty THEN CompileError("attribute accepts no arguments")
    ELSE IF ~in.validSignature
    THEN CompileError("handlers must have signature fn()")
    ELSE LET x == ExtractStaticMuts(in.stmts)
         IN  IF ~x.ok THEN CompileError("the name is defined multiple times")
             ELSE Expansion(CallOnce(done), in.ident, x.statics, x.stmts)

\* The uses of the attribute tried: every body under a well-formed handler
\* of either name, and the ill-formed uses.
MacroInput(ident, isFn, argsEmpty, validSignature, stmts) ==
    [ident |-> ident, isFn |-> isFn, argsEmpty |-> argsEmpty,
     validSignature |-> validSignature, stmts |-> stmts]
MacroInputs ==
    {MacroInput(h, TRUE, TRUE, TRUE, b) : h \in Handlers, b \in Bodies}
        \cup {MacroInput("GPIO", f, a, v, <<StaticMut("A"), StaticMut("A")>>) :
                f \in BOOLEAN, a \in BOOLEAN, v \in BOOLEAN}

\* The build before its first expansion.
MacroIdle ==
    [once |-> FALSE, traps |-> 0, accepted |-> 0, n |-> 0, rejected |-> {},
     in |-> MacroInput("", TRUE, TRUE, TRUE, <<>>), out |-> CompileError("")]

\* ------------------------------------------- the cells of the trampolines

\* The handlers of the running program: each declares `static mut A` at the
\* head of its body (as GPIO of examples/static-mut.rs does).
HandlerBody(h) == <<StaticMut("A"), OtherStmt>>

\* The initial value the handlers declare for the static.
CellInitValue == 0

\* The statics the trampoline of h declares and passes by `&mut`.
TrampolineCells(h) ==
    InterruptOutput(FALSE, MacroInput(h, TRUE, TRUE, TRUE, HandlerBody(h))).cells

\* `static mut #ident` stands inside the block of the trampoline of h: the
\* item belongs to that function.  The variant resolves it by name alone.
CellOf_ByName(h, name) == <<"", name>>
CellOf(h, name) == <<h, name>>

CellIds == {CellOf(h, TrampolineCells(h)[i]) : h \in Handlers, i \in 1..1}
CellsInit == [id \in CellIds |-> CellInitValue]

\* Per handler: whether an invocation is running, how many have returned,
\* what the last one found in the cell, the value the handler itself stored
\* last (at first the declared one), and that value as it was on entry.
CellLogInit ==
    [h \in Handlers |->
        [active |-> FALSE, count |-> 0, seen |-> CellInitValue,
         expected |-> CellInitValue, wrote |-> CellInitValue]]

\* ------------------------------ the enable words (plic/src/lib.rs, plic.rs)

\* The sources mask / unmask are called for: two bits of word 0 and bit 1 of
\* word 1.
EnableSources == {1, 2, 33}

\* enable[irq_number / 32] and 1 << (irq_number % 32).  A 32-bit word is kept
\* as the set of the bit positions that are set.
WordOf_Zero(irq) == 0
WordOf(irq) == irq \div 32
BitOf(irq) == irq % 32

\* enables[c].enable[w].read()
EnableRead(c, w) == {s % 32 : s \in {x \in enable[c] : x \div 32 = w}}

\* enables[c] after enable[w].write(bits)
EnableWritten(en, w, bits) == {x \in en : x \div 32 # w} \cup {32 * w + b : b \in bits}

\* The closures handed to modify: |v| v | 1 << k and |v| v & !(1 << k), with
\* the variant of the latter that drops the complement.
UnmaskModify(v, irq) == v \cup {BitOf(irq)}
MaskModify_NoComplement(v, irq) == v \cap {BitOf(irq)}
MaskModify(v, irq) == v \ {BitOf(irq)}

\* Plic::is_enabled(context, interrupt)
IsEnabled(c, irq) == (EnableRead(c, WordOf(irq)) \cap {BitOf(irq)}) # {}

\* Who calls mask / unmask: the mainline code, and a handler that preempts
\* it or code of another hart.
Agents == {"main", "irq"}

\* The value modify passes to its closure: the one it read.  The variant
\* takes the word as it is when the write is made.
ModifyInput_Atomic(read, current) == current
ModifyInput(read, current) == read

RmwNone == [op |-> "none", c |-> 0, s |-> 0, v |-> {}]
RmwInit == [a \in Agents |-> RmwNone]
NoOp == [op |-> "none", c |-> 0, s |-> 0, read |-> {}, before |-> {}]

\* Priority::into_bits, with the variant that keeps the low half only.
PriorityIntoBits_Low16(p) == [hi |-> 0, lo |-> p.lo]
PriorityIntoBits(p) == p

\* The macro, the cells and the enable callers before anything has run.
AuxInit ==
    /\ macro = MacroIdle
    /\ cells = CellsInit
    /\ cellLog = CellLogInit
    /\ rmw = RmwInit
    /\ lastOp = NoOp

\* --------------------------------------------------------- specification

EvalIdle == [op |-> "none", B |-> 0, arg |-> U32(0), res |-> Err]

\* Priorities 1..MaxPrio are configured, thresholds start at 0, nothing is
\* pending and no trap is in progress.
Init ==
    /\ priority \in [Sources -> 1..MaxPrio]
    /\ pending = {}
    /\ inService = {}
    /\ enable = EnableInit
    /\ threshold = [c \in Contexts |-> 0]
    /\ vectors \in Tables
    /\ mie \in MieInits
    /\ stack = [c \in Contexts |-> <<>>]
    /\ status = [c \in Contexts |-> "run"]
    /\ eval = EvalIdle
    /\ AuxInit

Next ==
    \/ \E s \in Sources : Assert_(s)
    \/ \E c \in Contexts : TrapEnter(c)
    \/ \E c \in Contexts : GetThreshold(c)
    \/ \E c \in Contexts : Claim(c)
    \/ \E c \in Contexts : GetPriority(c)
    \/ \E c \in Contexts : RaiseThreshold(c)
    \/ \E c \in Contexts : CallHandler(c)
    \/ \E c \in Contexts : HandlerReturn(c)
    \/ \E c \in Contexts : RestoreThreshold(c)
    \/ \E c \in Contexts : Complete(c)
    \/ \E c \in Contexts : TrapReturn(c)

Spec == Init /\ [][Next]_vars

\* ------------------------------------- the value types, input by input

\* The priority widths B tried: 1..MaxWidth and the full register width.
Widths == (1..MaxWidth) \cup {32}

\* The u16 values tried: the small ones and those around each limit.
U16Samples ==
    (0..MaxSmallRaw)
        \cup {Pow2(b) - 1 : b \in 1..16} \cup {Pow2(b) : b \in 1..15}
        \cup {1023, 1024}

\* The u32 (usize) values tried.
RawSamples ==
    {U32(n) : n \in U16Samples}
        \cup {[hi |-> h, lo |-> l] : h \in {1, Pow2(15), U16_MAX}, l \in {0, 1, U16_MAX}}

\* The values a claim register can read: 0 or a source identifier.
ClaimReads == {v \in RawSamples : v.hi = 0 /\ v.lo <= 1023}

\* What eval holds after an evaluation: the function, the width B it was
\* instantiated with (0: none), the argument as a u32, and the result.
Evaluation(op, B, arg, res) == [op |-> op, B |-> B, arg |-> arg, res |-> res]

EvalNrTryFromU16 ==
    \E v \in U16Samples :
        /\ eval = EvalIdle
        /\ eval' = Evaluation("NrTryFromU16", 0, U32(v), NrTryFromU16(v))
        /\ UNCHANGED <<plicVars, rtVars, auxVars>>

EvalNrTryFromU32 ==
    \E v \in RawSamples :
        /\ eval = EvalIdle
        /\ eval' = Evaluation("NrTryFromU32", 0, v, NrTryFromU32(v))
        /\ UNCHANGED <<plicVars, rtVars, auxVars>>

EvalNrTryFromUsize ==
    \E v \in RawSamples :
        /\ eval = EvalIdle
        /\ eval' = Evaluation("NrTryFromUsize", 0, v, NrTryFromUsize(v))
        /\ UNCHANGED <<plicVars, rtVars, auxVars>>

EvalPriorityHighest ==
    \E B \in Widths :
        /\ eval = EvalIdle
        /\ eval' = Evaluation("PriorityHighest", B, U32(0), Ok(PriorityHighest(B)))
        /\ UNCHANGED <<plicVars, rtVars, auxVars>>

EvalPriorityFromBits ==
    \E B \in Widths, v \in RawSamples :
        /\ eval = EvalIdle
        /\ eval' = Evaluation("PriorityFromBits", B, v, PriorityFromBits(B, v))
        /\ UNCHANGED <<plicVars, rtVars, auxVars>>

EvalFixedPriorityFromBits ==
    \E v \in RawSamples :
        /\ eval = EvalIdle
        /\ eval' = Evaluation("FixedPriorityFromBits", 3, v, FixedPriorityFromBits(v))
        /\ UNCHANGED <<plicVars, rtVars, auxVars>>

EvalPlicClaim ==
    \E v \in ClaimReads :
        /\ eval = EvalIdle
        /\ eval' = Evaluation("PlicClaim", 0, v, PlicClaim(v))
        /\ UNCHANGED <<plicVars, rtVars, auxVars>>

EvalFixedPlicClaim ==
    \E v \in ClaimReads :
        /\ eval = EvalIdle
        /\ eval' = Evaluation("FixedPlicClaim", 0, v, FixedPlicClaim(v))
        /\ UNCHANGED <<plicVars, rtVars, auxVars>>

\* The raw values of the documented range of Nr, and those tried elsewhere.
NrSamples == (1..1023) \cup U16Samples

EvalNrRoundTripU16 ==
    \E v \in NrSamples :
        /\ eval = EvalIdle
        /\ eval' = Evaluation("NrRoundTripU16", 0, U32(v), NrRoundTrip(NrTryFromU16(v)))
        /\ UNCHANGED <<plicVars, rtVars, auxVars>>

EvalNrRoundTripU32 ==
    \E v \in {U32(n) : n \in NrSamples} \cup RawSamples :
        /\ eval = EvalIdle
        /\ eval' = Evaluation("NrRoundTripU32", 0, v, NrRoundTrip(NrTryFromU32(v)))
        /\ UNCHANGED <<plicVars, rtVars, auxVars>>

EvalNrRoundTripUsize ==
    \E v \in {U32(n) : n \in NrSamples} \cup RawSamples :
        /\ eval = EvalIdle
        /\ eval' = Evaluation("NrRoundTripUsize", 0, v, NrRoundTrip(NrTryFromUsize(v)))
        /\ UNCHANGED <<plicVars, rtVars, auxVars>>

InitValue ==
    /\ priority = [s \in Sources |-> 1]
    /\ pending = {}
    /\ inService = {}
    /\ enable = EnableInit
    /\ threshold = [c \in Contexts |-> 0]
    /\ vectors = FullTable
    /\ mie = [c \in Contexts |-> [msoft |-> TRUE, mtimer |-> TRUE]]
    /\ stack = [c \in Contexts |-> <<>>]
    /\ status = [c \in Contexts |-> "run"]
    /\ eval = EvalIdle
    /\ AuxInit

NextValue ==
    \/ EvalNrTryFromU16
    \/ EvalNrTryFromU32
    \/ EvalNrTryFromUsize
    \/ EvalPriorityHighest
    \/ EvalPriorityFromBits
    \/ EvalFixedPriorityFromBits
    \/ EvalPlicClaim
    \/ EvalFixedPlicClaim
    \/ EvalNrRoundTripU16
    \/ EvalNrRoundTripU32
    \/ EvalNrRoundTripUsize

SpecValue == InitValue /\ [][NextValue]_vars

\* --------------------------------------------- the build, use by use

\* HAS_TRAP_HANDLER after a use: call_once is reached by the uses that no
\* error return has ended.  The variant reaches it on every use.
OnceAfter_Always(done, out) == TRUE
OnceAfter(done, out) == done \/ out.ok

\* One use of #[interrupt]: the macro runs on it with the HAS_TRAP_HANDLER
\* the earlier uses of the build have left.  The errors return before
\* call_once is reached.
Interrupt(in) ==
    LET out == InterruptOutput(macro.once, in)
    IN  /\ macro.n < MaxExpansions
        /\ macro' = [once |-> OnceAfter(macro.once, out),
                     rejected |-> IF out.ok THEN macro.rejected
                                  ELSE macro.rejected \cup {out.msg},
                     traps |-> macro.traps + (IF out.trap THEN 1 ELSE 0),
                     accepted |-> macro.accepted + (IF out.ok THEN 1 ELSE 0),
                     n |-> macro.n + 1,
                     in |-> in,
                     out |-> out]
        /\ UNCHANGED <<plicVars, rtVars, eval, cells, cellLog, rmw, lastOp>>

InitMacro == InitValue

NextMacro == \E in \in MacroInputs : Interrupt(in)

SpecMacro == InitMacro /\ [][NextMacro]_vars

\* ------------------------------------- the handlers and their cells

\* The cell of handler h.
CellOfHandler(h) == CellOf(h, TrampolineCells(h)[1])

\* The trampoline of h is called: it takes `&mut` of its static and calls
\* the handler with it, which reads the cell.  A source is not dispatched
\* again before its handler has returned and it has been completed, so h is
\* not running already.
Invoke(h) ==
    /\ ~cellLog[h].active
    /\ cellLog[h].count < MaxInvocations
    /\ cellLog' = [cellLog EXCEPT ![h] =
                      [@ EXCEPT !.active = TRUE,
                                !.seen = cells[CellOfHandler(h)],
                                !.expected = cellLog[h].wrote]]
    /\ UNCHANGED <<plicVars, rtVars, eval, macro, cells, rmw, lastOp>>

\* The handler stores v through the reference and returns.
HandlerStore(h, v) ==
    /\ cellLog[h].active
    /\ cells' = [cells EXCEPT ![CellOfHandler(h)] = v]
    /\ cellLog' = [cellLog EXCEPT ![h] =
                      [@ EXCEPT !.active = FALSE, !.count = @ + 1, !.wrote = v]]
    /\ UNCHANGED <<plicVars, rtVars, eval, macro, rmw, lastOp>>

InitCells == InitValue

NextCells ==
    \/ \E h \in Handlers : Invoke(h)
    \/ \E h \in Handlers : \E v \in 0..MaxCell : HandlerStore(h, v)

SpecCells == InitCells /\ [][NextCells]_vars

\* ------------------------------------------- mask / unmask, step by step

\* modify(f) is a read followed by a write of f(value read); between the
\* two the other caller may run.  The read of agent a calling op on (c, s):
ModifyRead(a, op, c, s) ==
    /\ rmw[a].op = "none"
    /\ rmw' = [rmw EXCEPT ![a] = [op |-> op, c |-> c, s |-> s,
                                  v |-> EnableRead(c, WordOf(s))]]
    /\ UNCHANGED <<plicVars, rtVars, eval, macro, cells, cellLog, lastOp>>

\* The write that ends the call of agent a, with f its closure.
ModifyWrite(a, new) ==
    /\ enable' = [enable EXCEPT ![rmw[a].c] = EnableWritten(@, WordOf(rmw[a].s), new)]
    /\ lastOp' = [op |-> rmw[a].op, c |-> rmw[a].c, s |-> rmw[a].s, read |-> rmw[a].v,
                  before |-> EnableRead(rmw[a].c, WordOf(rmw[a].s))]
    /\ rmw' = [rmw EXCEPT ![a] = RmwNone]
    /\ UNCHANGED <<priority, pending, inService, threshold, rtVars, eval, macro, cells, cellLog>>

\* Plic::unmask(context, interrupt)
UnmaskRead(a, c, s) == ModifyRead(a, "unmask", c, s)
UnmaskWrite(a) ==
    /\ rmw[a].op = "unmask"
    /\ ModifyWrite(a, UnmaskModify(ModifyInput(rmw[a].v, EnableRead(rmw[a].c, WordOf(rmw[a].s))),
                                   rmw[a].s))

\* Plic::mask(context, interrupt)
MaskRead(a, c, s) == ModifyRead(a, "mask", c, s)
MaskWrite(a) ==
    /\ rmw[a].op = "mask"
    /\ ModifyWrite(a, MaskModify(ModifyInput(rmw[a].v, EnableRead(rmw[a].c, WordOf(rmw[a].s))),
                                 rmw[a].s))

InitEnable == InitValue

NextEnable ==
    \/ \E a \in Agents : \E c \in Contexts : \E s \in EnableSources : UnmaskRead(a, c, s)
    \/ \E a \in Agents : UnmaskWrite(a)
    \/ \E a \in Agents : \E c \in Contexts : \E s \in EnableSources : MaskRead(a, c, s)
    \/ \E a \in Agents : MaskWrite(a)

SpecEnable == InitEnable /\ [][NextEnable]_vars

\* --------------------------------------- set_priority / get_priority

\* Priority::never() and Priority::lowest()
PriorityNever == U32(0)
PriorityLowest == U32(1)

\* The priorities of width B a caller can construct: never(), lowest(),
\* highest() and what from_bits returns for the raw values around the limit.
PriorityRaws(B) ==
    {U32(2), U32_MAX, PriorityHighest(B), Sub32(Shl32(U32(1), B % 32), U32(1))}
Priorities(B) ==
    {PriorityNever, PriorityLowest, PriorityHighest(B)}
        \cup {PriorityFromBits(B, x).val : x \in {y \in PriorityRaws(B) : PriorityFromBits(B, y).ok}}

\* A call of the driver on the priority register of source s, as `eval`
\* keeps it: p is the priority passed to the last set_priority(s, ..) where
\* fresh says that this call comes right after it.
PriorityCall(op, B, s, p, fresh, res) ==
    [op |-> op, B |-> B, src |-> s, arg |-> p, fresh |-> fresh, res |-> res]

\* Plic::<P, B>::set_priority(interrupt, prio).  In this specification
\* priority[s] is the whole 32-bit register.
PlicSetPriority(s, p) ==
    /\ priority' = [priority EXCEPT ![s] = PriorityIntoBits(p)]
    /\ eval' = PriorityCall("set_priority", eval.B, s, p, FALSE, Ok(p))
    /\ UNCHANGED <<pending, inService, enable, threshold, rtVars, auxVars>>

\* Plic::<P, B>::get_priority(interrupt): res is Err where from_bits panics.
PlicGetPriority(s) ==
    /\ eval' = PriorityCall("get_priority", eval.B, s,
                            IF eval.src = s THEN eval.arg ELSE U32(0),
                            eval.op = "set_priority" /\ eval.src = s,
                            PriorityFromBits(eval.B, priority[s]))
    /\ UNCHANGED <<plicVars, rtVars, auxVars>>

\* The driver is instantiated for one width B; the registers hold 0.
InitPriority ==
    /\ priority = [s \in Sources |-> U32(0)]
    /\ pending = {}
    /\ inService = {}
    /\ enable = EnableInit
    /\ threshold = [c \in Contexts |-> 0]
    /\ vectors = FullTable
    /\ mie = [c \in Contexts |-> [msoft |-> TRUE, mtimer |-> TRUE]]
    /\ stack = [c \in Contexts |-> <<>>]
    /\ status = [c \in Contexts |-> "run"]
    /\ \E B \in Widths : eval = PriorityCall("none", B, 0, U32(0), FALSE, Ok(U32(0)))
    /\ AuxInit

NextPriority ==
    \/ \E s \in Sources : \E p \in Priorities(eval.B) : PlicSetPriority(s, p)
    \/ \E s \in Sources : PlicGetPriority(s)

SpecPriority == InitPriority /\ [][NextPriority]_vars

\* ------------------------------------------------------------ the claims

Frames(c) == {stack[c][i] : i \in 1..Len(stack[c])}
StepOf(f) == TrapEntrySteps[f.pc]
IsPrefix(s, t) == Len(s) <= Len(t) /\ SubSeq(t, 1, Len(s)) = s

\* The source's slot of pac::__INTERRUPTS holds no handler.
Unbound(s) == s >= Len(vectors) \/ vectors[s + 1] = "reserved"

\* C1: a trap entry whose claim read 0 returns as a no-op: it makes no
\* handler call, no threshold write and no complete write, and it does not
\* abort.
C1_SpuriousClaimIsNoOp ==
    \A c \in Contexts : \A f \in Frames(c) :
        f.irq = 0 => f.trace = <<>> /\ status[c] \notin Stopped

\* The calls one dispatch of source f.irq makes, in order.
ExpectedTrace(f) ==
    << <<"claim", f.irq>>, <<"set_threshold", priority[f.irq]>>, <<"handler", f.irq>>,
       <<"set_threshold", f.threshold>>, <<"complete", f.irq>> >>

\* C2: a trap entry that claimed source s makes claim, set_threshold(priority
\* of s), the handler call of s, set_threshold(saved threshold) and
\* complete(s) in this order and makes no other such call: what it has done
\* so far is always a prefix of that sequence, the handler runs only after
\* the first three, and the entry returns only after all five.
C2_DispatchOrder ==
    \A c \in Contexts : \A f \in Frames(c) :
        IF f.irq \in Sources
        THEN /\ IsPrefix(f.trace, ExpectedTrace(f))
             /\ StepOf(f) = "handler" => Len(f.trace) = 3
             /\ StepOf(f) = "ret" => f.trace = ExpectedTrace(f)
        ELSE f.trace = <<>>

C2_Witness ==
    \E c \in Contexts : \E f \in Frames(c) :
        f.irq \in Sources /\ StepOf(f) = "ret" /\ Len(f.trace) = 5

\* C3: on one context no two trap entries are inside the handler of the
\* same source at one time.
C3_OneInvocationPerSource ==
    \A c \in Contexts : \A i, j \in 1..Len(stack[c]) :
        (i < j /\ StepOf(stack[c][i]) = "handler" /\ StepOf(stack[c][j]) = "handler")
            => stack[c][i].irq # stack[c][j].irq

\* A source is dispatched again, and its handler runs, while the trap entry
\* of its previous dispatch has not returned yet.
C3_Witness ==
    \E c \in Contexts : \E i, j \in 1..Len(stack[c]) :
        /\ i < j
        /\ stack[c][i].irq = stack[c][j].irq
        /\ StepOf(stack[c][j]) = "handler"

\* C4: a source claimed by a trap entry that preempted a handler (a handler
\* that runs, or has returned with its threshold not yet restored) has a
\* priority strictly above that of the handler's source; a pending source of
\* equal or lower priority is never claimed there.
C4_PreemptionStrictlyHigher ==
    \A c \in Contexts : \A i, j \in 1..Len(stack[c]) :
        (/\ i < j
         /\ StepOf(stack[c][i]) \in {"handler", "restore"}
         /\ stack[c][j].irq \in Sources)
            => priority[stack[c][j].irq] > priority[stack[c][i].irq]

C4_Witness ==
    \E c \in Contexts : \E i, j \in 1..Len(stack[c]) :
        /\ i < j
        /\ StepOf(stack[c][i]) = "handler"
        /\ StepOf(stack[c][j]) = "handler"
        /\ \E s \in pending : s \in enable[c] /\ priority[s] <= priority[stack[c][j].irq]

\* C5: when a dispatch has written its complete, the threshold of its context
\* is the one the context had when the trap was entered.
C5_ThresholdRestored ==
    \A c \in Contexts :
        (stack[c] # <<>> /\ StepOf(Top(c)) = "ret") => threshold[c] = Top(c).entry

\* Source 5 at priority 3 was dispatched on context 0 from threshold 0 and has
\* been completed.
C5_Witness ==
    /\ stack[0] # <<>>
    /\ StepOf(Top(0)) = "ret"
    /\ Top(0).irq = 5
    /\ priority[5] = 3
    /\ Top(0).entry = 0
    /\ Top(0).trace[Len(Top(0).trace)] = <<"complete", 5>>
    /\ threshold[0] = 0

\* C6: Nr::try_from fails for 0 and for every value above 1023, from u16, u32
\* and usize alike, so that an Nr is always within 1..=1023.
C6_NrWithinRange ==
    eval.op \in {"NrTryFromU16", "NrTryFromU32", "NrTryFromUsize"}
        => /\ (ToNatOrBig(eval.arg) = 0 \/ ToNatOrBig(eval.arg) > 1023) => ~eval.res.ok
           /\ eval.res.ok => eval.res.val \in 1..1023

\* C7: Priority::<B>::highest() is 2^B - 1 for B in 1..=8 and u32::MAX for
\* B = 32.
C7_HighestIsAllOnes ==
    eval.op = "PriorityHighest"
        => /\ eval.B \in 1..8 => eval.res.val = U32(Pow2(eval.B) - 1)
           /\ eval.B = 32 => eval.res.val = U32_MAX

\* C8: for B < 32, from_bits succeeds exactly for the raw values 0..=2^B - 1
\* and panics for every raw value >= 2^B; the fixed-width from_bits panics
\* exactly above 7.
C8_FromBitsAcceptsExactlyWidth ==
    /\ (eval.op = "PriorityFromBits" /\ eval.B < 32)
           => (eval.res.ok <=> Lt32(eval.arg, U32(Pow2(eval.B))))
    /\ eval.op = "FixedPriorityFromBits"
           => (eval.res.ok <=> Lt32(eval.arg, U32(8)))

\* C9: claim returns None exactly when the register reads 0, and Some of the
\* value read otherwise, in both variants of the driver.
C9_ClaimNoneIffZero ==
    eval.op \in {"PlicClaim", "FixedPlicClaim"}
        => /\ ~eval.res.ok <=> eval.arg = U32(0)
           /\ eval.arg # U32(0) => eval.res = Ok(ToNat(eval.arg))

\* C10: a trap entry that claimed a source with no handler bound stops with a
\* fatal error before any code is run for it: it never gets past the call,
\* and the hart does not run off through the placeholder.
C10_UnboundSourceIsFatal ==
    \A c \in Contexts : \A f \in Frames(c) :
        (f.irq \in Sources /\ Unbound(f.irq))
            => /\ f.pc <= CallIndex
               /\ status[c] # "wild"

\* C11: with n >= 1 accepted uses of the attribute in one build exactly one
\* trap entry is emitted, by the first accepted use; with none accepted,
\* none is emitted.
C11_OneTrapEntry ==
    /\ macro.traps = (IF macro.accepted >= 1 THEN 1 ELSE 0)
    /\ macro.out.ok => (macro.out.trap <=> macro.accepted = 1)

C11_Witness == macro.accepted >= 2 /\ macro.traps = 1 /\ macro.out.ok /\ ~macro.out.trap

\* The cells a handler declares: the `static mut` items among the statics
\* its body begins with.
RECURSIVE HeadLen(_)
HeadLen(stmts) ==
    IF stmts = <<>> \/ Head(stmts).kind \notin {"static_mut", "static"} THEN 0
    ELSE 1 + HeadLen(Tail(stmts))
IsStaticMut(stmt) == stmt.kind = "static_mut"
DeclaredCells(stmts) ==
    LET head == SelectSeq(SubSeq(stmts, 1, HeadLen(stmts)), IsStaticMut)
    IN  [i \in 1..Len(head) |-> head[i].name]
HasDuplicate(names) ==
    \E i \in 1..Len(names) : \E j \in 1..Len(names) : i < j /\ names[i] = names[j]
WellFormedUse == macro.n >= 1 /\ macro.in.isFn /\ macro.in.argsEmpty /\ macro.in.validSignature

\* C13: a handler that declares two cells of the same name is rejected with
\* an error and gets no trampoline; a handler whose cell names are pairwise
\* distinct is accepted and its trampoline has one cell per name.
C13_DuplicateCellRejected ==
    WellFormedUse =>
        LET d == DeclaredCells(macro.in.stmts)
        IN  IF HasDuplicate(d)
            THEN ~macro.out.ok /\ macro.out.tramp = "" /\ macro.out.cells = <<>>
            ELSE macro.out.ok /\ macro.out.tramp = macro.in.ident /\ macro.out.cells = d

C13_Witness ==
    /\ WellFormedUse
    /\ macro.in.stmts = <<StaticMut("A"), StaticImm("A"), StaticMut("A")>>
    /\ ~macro.out.ok

\* C12: each cell holds its initial value updated only by the invocations
\* of its own handler: an invocation finds in the cell what the previous
\* invocation of the same handler stored (at first the declared value), and
\* the invocations of the other handler leave the cell as it is.
C12_CellsAreOwned ==
    \A h \in Handlers :
        /\ cells[CellOfHandler(h)] = cellLog[h].wrote
        /\ cellLog[h].seen = cellLog[h].expected

C12_Witness ==
    /\ \A h \in Handlers : cellLog[h].count >= 3
    /\ cellLog["GPIO"].seen # CellInitValue
    /\ cells[CellOfHandler("GPIO")] # cells[CellOfHandler("SERIAL")]

\* C14: right after mask(c, s) has returned is_enabled(c, s) is false, and
\* right after unmask(c, s) has returned it is true, whatever the enable
\* bits were before.
C14_MaskThenIsEnabled ==
    /\ lastOp.op = "mask" => ~IsEnabled(lastOp.c, lastOp.s)
    /\ lastOp.op = "unmask" => IsEnabled(lastOp.c, lastOp.s)

C14_Witness ==
    /\ lastOp.op = "mask"
    /\ BitOf(lastOp.s) \in lastOp.before
    /\ ~IsEnabled(lastOp.c, lastOp.s)
    /\ \E s \in EnableSources : s # lastOp.s /\ IsEnabled(lastOp.c, s)

\* The bits of a word other than the one of source s.
OtherBits(word, s) == word \ {BitOf(s)}

\* C17: mask and unmask write back the word they read with their own bit
\* changed: every other bit of the word is as it was at the read, so a
\* change another caller made to such a bit between the read and the write
\* is lost.
C17_InterleavedUpdateLost ==
    lastOp.op # "none" =>
        OtherBits(EnableRead(lastOp.c, WordOf(lastOp.s)), lastOp.s) = OtherBits(lastOp.read, lastOp.s)

C17_Witness ==
    /\ lastOp.op # "none"
    /\ OtherBits(lastOp.before, lastOp.s) # OtherBits(lastOp.read, lastOp.s)
    /\ OtherBits(EnableRead(lastOp.c, WordOf(lastOp.s)), lastOp.s) = OtherBits(lastOp.read, lastOp.s)

\* C15: get_priority(s) right after set_priority(s, p) returns p and does
\* not abort, for every priority p that can be constructed for the width.
C15_PriorityRoundTrip ==
    (eval.op = "get_priority" /\ eval.fresh) => (eval.res.ok /\ eval.res.val = eval.arg)

C15_Witness ==
    /\ eval.op = "get_priority" /\ eval.fresh
    /\ eval.B = PRIORITY_BITS
    /\ eval.arg = PriorityHighest(PRIORITY_BITS)
    /\ eval.res.ok /\ eval.res.val = eval.arg

\* C16: for every raw value v in 1..=1023, Nr::try_from(v) succeeds from
\* u16, u32 and usize, and the Nr converts back to v as u16, u32 and usize.
C16_NrRoundTrip ==
    (/\ eval.op \in {"NrRoundTripU16", "NrRoundTripU32", "NrRoundTripUsize"}
     /\ eval.arg.hi = 0
     /\ eval.arg.lo \in 1..1023)
        => /\ eval.res.ok
           /\ eval.res.val.u16 = eval.arg.lo
           /\ eval.res.val.u32 = eval.arg
           /\ eval.res.val.usize = eval.arg

C16_Witness ==
    /\ eval.op = "NrRoundTripUsize"
    /\ eval.arg = U32(1023)
    /\ eval.res.ok
    /\ eval.res.val = [u16 |-> 1023, u32 |-> U32(1023), usize |-> U32(1023)]

Holds(f) ==
    /\ f.irq \in Sources
    /\ \E i \in 1..Len(TrapEntrySteps) : TrapEntrySteps[i] = "complete" /\ f.pc <= i

\* C19: a source claimed by a dispatch on context c is completed by that
\* dispatch; for that the context must not have stopped while one of its
\* trap entries holds a source.  (A source beyond the handler table stops
\* the context with the index panic: that case is left out here.)
C19_ClaimedIsCompleted ==
    \A c \in Contexts : \A f \in Frames(c) :
        Holds(f) => status[c] \in {"run", "panic_index"}

\* The sources context d has claimed and not completed.
ClaimState(d) == {s \in inService : \E f \in Frames(d) : Holds(f) /\ f.irq = s}

\* C20: a step of the trap entry on context c leaves the threshold, the
\* claim state and the enable bits of every other context d as they are,
\* also while a dispatch is in progress on d.
C20_OtherContextsUntouched ==
    [][\A c \in Contexts :
          (stack'[c] # stack[c] \/ status'[c] # status[c]) =>
              \A d \in Contexts \ {c} :
                  /\ threshold'[d] = threshold[d]
                  /\ enable'[d] = enable[d]
                  /\ ClaimState(d)' = ClaimState(d)]_vars

C20_Witness ==
    /\ \A c \in Contexts : stack[c] # <<>> /\ Holds(Top(c)) /\ status[c] = "run"
    /\ threshold[0] # threshold[1]
    /\ ClaimState(0) # {} /\ ClaimState(1) # {}

\* No two of the sources 1..=1023 have the same word and bit.
EnableBitsDistinct ==
    Cardinality({<<WordOf(s), BitOf(s)>> : s \in 1..1023}) = 1023

\* The bits of context c outside word w, as source numbers.
OutsideWord(en, w) == {x \in en : x \div 32 # w}

\* The bits of word w of a context, as bit positions.
WordBits(en, w) == {x % 32 : x \in {y \in en : y \div 32 = w}}

C22_RejectedKeepsOnce ==
    /\ macro.accepted = 0 => (~macro.once /\ macro.traps = 0)
    /\ (macro.out.ok /\ macro.accepted = 1) => (macro.out.trap /\ macro.traps = 1)

C22_Witness ==
    /\ macro.n >= 3
    /\ Cardinality(macro.rejected) >= 2
    /\ "the name is defined multiple times" \in macro.rejected
    /\ macro.accepted = 1
    /\ macro.out.ok /\ macro.out.trap

MieCleared == [msoft |-> FALSE, mtimer |-> FALSE]
MieSet == [msoft |-> TRUE, mtimer |-> TRUE]

\* C23: while the handler a trap entry has called runs, mie.msoft and
\* mie.mtimer of the hart are clear; and once the trap entry has gone past
\* its restore both are set, whatever they were at its entry.
C23_HandlerRunsWithEnablesCleared ==
    \A c \in Contexts :
        /\ AtStep(c, "handler") => mie[c] = MieCleared
        /\ (AtStep(c, "complete") \/ AtStep(c, "ret")) => mie[c] = MieSet

====
